---------------------------- MODULE Spec2Model ----------------------------
(***************************************************************************)
(* A model of record_provenance.py: the command line program that reads a  *)
(* scenario, resolves one digest per image through `docker image inspect`  *)
(* and writes the provenance record.                                       *)
(*                                                                         *)
(* Strings that the program takes apart or builds (image references, the   *)
(* standard output of the inspection command, digests) are sequences of    *)
(* characters.  Participant names are only used as mapping keys and are    *)
(* TLA+ strings.  The inspection command is the environment: each call of  *)
(* subprocess.run either ends with an exit status and an output, or raises *)
(* an exception that is not CalledProcessError: ValueError when an         *)
(* argument holds a NUL character (raised before anything runs), OSError   *)
(* when the docker executable cannot be started.                           *)
(***************************************************************************)
EXTENDS Integers, Sequences, FiniteSets, TLC

VARIABLES
    pc,         \* position of the program
    scenario,   \* the mapping returned by parse_scenario
    idx,        \* entry being handled: 0 the green agent, i the i-th participant
    digests,    \* collect_image_digests' local `digests`
    ret,        \* history: entry -> what get_image_digest returned for it, and where
    log,        \* history: the calls of subprocess.run, in order
    env,        \* what the container runtime answered so far (used when stable)
    stable,     \* TRUE when the runtime answers the same question the same way
    file,       \* the destination file: "untouched" (absent, or with its old
                \* content), "partial" or "record"
    record,     \* the content written to the destination file
    opens,      \* how many times the destination was opened for writing
    milestones, \* history: the stages main went through
    exitCode,   \* exit status of the process, -1 while it runs
    cause,      \* why the run failed, "none" otherwise
    stdout,     \* the line printed on standard output
    clock,      \* the UTC time, in seconds
    run,        \* which of the two runs of the collector (SpecTwice)
    prev        \* the mapping the first run returned (SpecTwice)

vars == <<pc, scenario, idx, digests, ret, log, env, stable, file, record,
          opens, milestones, exitCode, cause, stdout, clock, run, prev>>

----------------------------------------------------------------------------
(* Bounds of the model *)

MaxParticipants == 2

----------------------------------------------------------------------------
(* Strings *)

NUL == "NUL"
Whitespace == {" ", "\n"}

RECURSIVE LStrip(_)
LStrip(s) == IF s /= <<>> /\ Head(s) \in Whitespace THEN LStrip(Tail(s)) ELSE s

RECURSIVE RStrip(_)
RStrip(s) ==
    IF s /= <<>> /\ s[Len(s)] \in Whitespace
    THEN RStrip(SubSeq(s, 1, Len(s) - 1))
    ELSE s

\* str.strip()
Strip(s) == RStrip(LStrip(s))

HasNul(s) == \E k \in 1..Len(s) : s[k] = NUL

\* f"unknown:{image}"
Sentinel(image) == <<"unknown:">> \o image

----------------------------------------------------------------------------
(* Inputs *)

\* Faulty variant of GreenKey: the green agent stored under another key.
GreenKeyTypo == "green"

GreenKey == "green_agent"
Names == {GreenKey, "p"}
Images == {<<>>, <<"a">>, <<"a", NUL>>}

Entries ==
    [hasName : {TRUE}, name : Names, hasImage : {TRUE}, image : Images]
    \cup {[hasName |-> FALSE, name |-> "", hasImage |-> TRUE, image |-> <<"a">>],
          [hasName |-> TRUE, name |-> "p", hasImage |-> FALSE, image |-> <<>>]}

Greens ==
    [hasImage : {TRUE}, image : Images]
    \cup {[hasImage |-> FALSE, image |-> <<>>]}

ParticipantLists == UNION {[1..n -> Entries] : n \in 0..MaxParticipants}

Scenarios ==
    [green : Greens, hasParticipants : {TRUE}, participants : ParticipantLists]
    \cup [green : Greens, hasParticipants : {FALSE}, participants : {<<>>}]

NoScenario ==
    [green |-> [hasImage |-> FALSE, image |-> <<>>],
     hasParticipants |-> FALSE, participants |-> <<>>]

\* scenario.get("participants", [])
Participants(s) == IF s.hasParticipants THEN s.participants ELSE <<>>

Tag(field) == IF field = "repo" THEN "r" ELSE "i"

\* What one call of subprocess.run(..., check=True) can do.
Outcomes(image, field) ==
    IF HasNul(image)
    THEN {[kind |-> "ValueError", rc |-> -1, out |-> <<>>]}
    ELSE {[kind |-> "OSError", rc |-> -1, out |-> <<>>],
          [kind |-> "exit", rc |-> 1, out |-> <<>>],
          [kind |-> "exit", rc |-> 0, out |-> <<"\n">>],
          [kind |-> "exit", rc |-> 0, out |-> <<" ", Tag(field), "\n">>]}

\* The answers the runtime can give now.
Answers(image, field) ==
    IF stable /\ <<image, field>> \in DOMAIN env
    THEN {env[<<image, field>>]}
    ELSE Outcomes(image, field)

Remember(image, field, o) ==
    IF stable THEN (<<image, field>> :> o) @@ env ELSE env

----------------------------------------------------------------------------
(* The collector's state *)

\* Faulty variant of EmptyDigests: the capture time put inside the mapping.
StampedDigests == ("timestamp" :> <<clock>>)

\* digests = {}
EmptyDigests == <<>>

\* Faulty variant of Store: digests.setdefault(key, val), first write wins.
StoreIfAbsent(d, key, val) ==
    [k \in DOMAIN d \cup {key} |-> IF k \in DOMAIN d THEN d[k] ELSE val]

\* digests[key] = val
Store(d, key, val) ==
    [k \in DOMAIN d \cup {key} |-> IF k = key THEN val ELSE d[k]]

\* The image of the entry being resolved and the key it is stored under.
CurImage == IF idx = 0 THEN scenario.green.image
            ELSE Participants(scenario)[idx].image
CurKey == IF idx = 0 THEN GreenKey ELSE Participants(scenario)[idx].name

\* Faulty variant of ShouldResolve: the empty image is not skipped.
ShouldResolveAlways(image) == TRUE

\* if image:
ShouldResolve(image) == image /= <<>>

\* Faulty variant of ParticipantError: participant.get(...), no lookup error.
ParticipantErrorLenient(p) == "none"

\* participant["name"], participant["image"]
ParticipantError(p) ==
    IF ~p.hasName THEN "KeyError:name"
    ELSE IF ~p.hasImage THEN "KeyError:image"
    ELSE "none"

\* Faulty variant of FirstWins: a blank first output is returned as well.
FirstWinsAnyOutput(rc, digest) == rc = 0

\* if digest:  (after a zero exit status of the first call)
FirstWins(rc, digest) == rc = 0 /\ digest /= <<>>

NoRecord == [image_digests |-> <<>>, timestamp |-> -1]

----------------------------------------------------------------------------
Init ==
    /\ pc = "import"
    /\ clock = 0
    /\ scenario = NoScenario
    /\ idx = 0
    /\ digests = EmptyDigests
    /\ ret = <<>>
    /\ log = <<>>
    /\ env = <<>>
    /\ stable = FALSE
    /\ file = "untouched"
    /\ record = NoRecord
    /\ opens = 0
    /\ milestones = <<>>
    /\ exitCode = -1
    /\ cause = "none"
    /\ stdout = "none"
    /\ run = 1
    /\ prev = <<>>

\* An uncaught exception or sys.exit(code): the process ends.
Exit(code, why, msg) ==
    /\ pc' = "exit"
    /\ exitCode' = code
    /\ cause' = why
    /\ stdout' = msg

\* lines 10-17
ImportTomli ==
    /\ pc = "import"
    /\ \E available \in BOOLEAN :
         IF available
         THEN /\ pc' = "args"
              /\ UNCHANGED <<exitCode, cause, stdout>>
         ELSE Exit(1, "tomli", "Error: tomli required")
    /\ UNCHANGED <<scenario, idx, digests, ret, log, env, stable, file, record,
                   opens, milestones, clock, run, prev>>

\* lines 88-91
ParseArgs ==
    /\ pc = "args"
    /\ \E given \in BOOLEAN :
         IF given
         THEN /\ pc' = "exists"
              /\ UNCHANGED <<exitCode, cause, stdout>>
         ELSE Exit(2, "usage", "none")
    /\ UNCHANGED <<scenario, idx, digests, ret, log, env, stable, file, record,
                   opens, milestones, clock, run, prev>>

\* Faulty variant of CheckExists: the destination is opened for writing first.
CheckExistsTruncating ==
    /\ pc = "exists"
    /\ opens' = opens + 1
    /\ file' = "partial"
    /\ \E exists \in BOOLEAN :
         IF exists
         THEN /\ pc' = "parse"
              /\ milestones' = Append(milestones, "found")
              /\ UNCHANGED <<exitCode, cause, stdout>>
         ELSE /\ Exit(1, "not found", "Error: not found")
              /\ UNCHANGED milestones
    /\ UNCHANGED <<scenario, idx, digests, ret, log, env, stable, record,
                   clock, run, prev>>

\* lines 93-95
CheckExists ==
    /\ pc = "exists"
    /\ \E exists \in BOOLEAN :
         IF exists
         THEN /\ pc' = "parse"
              /\ milestones' = Append(milestones, "found")
              /\ UNCHANGED <<exitCode, cause, stdout>>
         ELSE /\ Exit(1, "not found", "Error: not found")
              /\ UNCHANGED milestones
    /\ UNCHANGED <<scenario, idx, digests, ret, log, env, stable, file, record,
                   opens, clock, run, prev>>

\* line 97, lines 52-55
ParseScenario ==
    /\ pc = "parse"
    /\ \/ /\ Exit(1, "parse error", "none")
          /\ UNCHANGED <<scenario, milestones>>
       \/ \E s \in Scenarios :
            /\ scenario' = s
            /\ pc' = "green"
            /\ milestones' = Append(milestones, "parsed")
            /\ UNCHANGED <<exitCode, cause, stdout>>
    /\ UNCHANGED <<idx, digests, ret, log, env, stable, file, record,
                   opens, clock, run, prev>>

\* lines 60-63: the collector starts and looks the green agent's image up
GreenLookup ==
    /\ pc = "green"
    /\ digests' = EmptyDigests
    /\ idx' = 0
    /\ IF scenario.green.hasImage
       THEN /\ pc' = "repo"
            /\ UNCHANGED <<exitCode, cause, stdout>>
       ELSE Exit(1, "KeyError:green_agent.image", "none")
    /\ UNCHANGED <<scenario, ret, log, env, stable, file, record,
                   opens, milestones, clock, run, prev>>

\* get_image_digest returns val: line 64 or line 71 stores it
Return(val, via) ==
    /\ digests' = Store(digests, CurKey, val)
    /\ ret' = (idx :> [val |-> val, via |-> via]) @@ ret
    /\ idx' = idx + 1
    /\ pc' = "loop"
    /\ UNCHANGED <<exitCode, cause, stdout>>

\* lines 25-37: the first call, for the first repo digest
RunRepoDigest ==
    /\ pc = "repo"
    /\ \E o \in Answers(CurImage, "repo") :
         /\ log' = Append(log, [entry |-> idx, field |-> "repo", kind |-> o.kind,
                                rc |-> o.rc, out |-> o.out])
         /\ env' = Remember(CurImage, "repo", o)
         /\ IF o.kind /= "exit"
            THEN /\ Exit(1, o.kind, "none")
                 /\ UNCHANGED <<digests, ret, idx>>
            ELSE IF FirstWins(o.rc, Strip(o.out))
            THEN Return(Strip(o.out), "repo")
            ELSE /\ pc' = "id"
                 /\ UNCHANGED <<digests, ret, idx, exitCode, cause, stdout>>
    /\ UNCHANGED <<scenario, stable, file, record, opens, milestones,
                   clock, run, prev>>

\* lines 39-49: the second call, for the local identifier
RunId ==
    /\ pc = "id"
    /\ \E o \in Answers(CurImage, "id") :
         /\ log' = Append(log, [entry |-> idx, field |-> "id", kind |-> o.kind,
                                rc |-> o.rc, out |-> o.out])
         /\ env' = Remember(CurImage, "id", o)
         /\ IF o.kind /= "exit"
            THEN /\ Exit(1, o.kind, "none")
                 /\ UNCHANGED <<digests, ret, idx>>
            ELSE IF o.rc = 0
            THEN Return(Strip(o.out), "id")
            ELSE Return(Sentinel(CurImage), "sentinel")
    /\ UNCHANGED <<scenario, stable, file, record, opens, milestones,
                   clock, run, prev>>

\* Faulty variant of NextParticipant: the digest of an image resolved before
\* is reused without a new inspection.
NextParticipantCached ==
    /\ pc = "loop"
    /\ IF idx > Len(Participants(scenario))
       THEN /\ pc' = "returned"
            /\ UNCHANGED <<idx, digests, ret, exitCode, cause, stdout>>
       ELSE LET p == Participants(scenario)[idx]
                seen == {e \in DOMAIN ret :
                           p.image = (IF e = 0 THEN scenario.green.image
                                      ELSE Participants(scenario)[e].image)}
            IN
            IF ParticipantError(p) /= "none"
            THEN /\ Exit(1, ParticipantError(p), "none")
                 /\ UNCHANGED <<idx, digests, ret>>
            ELSE IF ShouldResolve(p.image) /\ seen /= {}
            THEN \E e \in seen : Return(ret[e].val, ret[e].via)
            ELSE IF ShouldResolve(p.image)
            THEN /\ pc' = "repo"
                 /\ UNCHANGED <<idx, digests, ret, exitCode, cause, stdout>>
            ELSE /\ idx' = idx + 1
                 /\ UNCHANGED <<pc, digests, ret, exitCode, cause, stdout>>
    /\ UNCHANGED <<scenario, log, env, stable, file, record,
                   opens, milestones, clock, run, prev>>

\* lines 67-73: the loop over the participants, and the return
NextParticipant ==
    /\ pc = "loop"
    /\ IF idx > Len(Participants(scenario))
       THEN /\ pc' = "returned"
            /\ UNCHANGED <<idx, exitCode, cause, stdout>>
       ELSE LET p == Participants(scenario)[idx] IN
            IF ParticipantError(p) /= "none"
            THEN /\ Exit(1, ParticipantError(p), "none")
                 /\ UNCHANGED idx
            ELSE IF ShouldResolve(p.image)
            THEN /\ pc' = "repo"
                 /\ UNCHANGED <<idx, exitCode, cause, stdout>>
            ELSE /\ idx' = idx + 1
                 /\ UNCHANGED <<pc, exitCode, cause, stdout>>
    /\ UNCHANGED <<scenario, digests, ret, log, env, stable, file, record,
                   opens, milestones, clock, run, prev>>

\* line 99, lines 76-84
WriteProvenance ==
    /\ pc = "returned"
    /\ \/ /\ Exit(1, "OSError:open", "none")
          /\ milestones' = Append(milestones, "collected")
          /\ UNCHANGED <<file, record, opens>>
       \/ /\ opens' = opens + 1
          /\ milestones' = milestones \o <<"collected", "opened">>
          /\ \/ /\ file' = "record"
                /\ record' = [image_digests |-> digests, timestamp |-> clock]
                /\ pc' = "print"
                /\ UNCHANGED <<exitCode, cause, stdout>>
             \/ /\ file' = "partial"
                /\ Exit(1, "OSError:write", "none")
                /\ UNCHANGED record
    /\ UNCHANGED <<scenario, idx, digests, ret, log, env, stable,
                   clock, run, prev>>

\* line 101
PrintSummary ==
    /\ pc = "print"
    /\ Exit(0, "none", "Recorded provenance")
    /\ UNCHANGED <<scenario, idx, digests, ret, log, env, stable, file, record,
                   opens, milestones, clock, run, prev>>

Next ==
    \/ ImportTomli
    \/ ParseArgs
    \/ CheckExists
    \/ ParseScenario
    \/ GreenLookup
    \/ RunRepoDigest
    \/ RunId
    \/ NextParticipant
    \/ WriteProvenance
    \/ PrintSummary

Spec == Init /\ [][Next]_vars

----------------------------------------------------------------------------
(* Two runs of collect_image_digests on one scenario, the runtime answering *)
(* the same question the same way throughout.                               *)

Init2 ==
    /\ pc = "green"
    /\ clock = 0
    /\ scenario \in Scenarios
    /\ idx = 0
    /\ digests = EmptyDigests
    /\ ret = <<>>
    /\ log = <<>>
    /\ env = <<>>
    /\ stable = TRUE
    /\ file = "untouched"
    /\ record = NoRecord
    /\ opens = 0
    /\ milestones = <<>>
    /\ exitCode = -1
    /\ cause = "none"
    /\ stdout = "none"
    /\ run = 1
    /\ prev = <<>>

\* The first run returned: keep its mapping and call the collector again, later.
Rerun ==
    /\ pc = "returned"
    /\ run = 1
    /\ prev' = digests
    /\ run' = 2
    /\ clock' = clock + 1
    /\ pc' = "green"
    /\ ret' = <<>>
    /\ log' = <<>>
    /\ UNCHANGED <<scenario, idx, digests, env, stable, file, record, opens,
                   milestones, exitCode, cause, stdout>>

Next2 ==
    \/ GreenLookup
    \/ RunRepoDigest
    \/ RunId
    \/ NextParticipant
    \/ Rerun

SpecTwice == Init2 /\ [][Next2]_vars

----------------------------------------------------------------------------
(* Vocabulary of the properties *)

Ps == Participants(scenario)

\* collect_image_digests has just returned its mapping.
CollectorReturned == pc = "returned"

\* collect_image_digests ended by an exception.
CollectorFailures ==
    {"KeyError:green_agent.image", "KeyError:name", "KeyError:image",
     "ValueError", "OSError"}
CollectorRaised == pc = "exit" /\ cause \in CollectorFailures

\* The entries that store under the key n: the green agent for green_agent,
\* and the participants named n whose image is not empty.
Writers(n) ==
    (IF n = "green_agent" THEN {0} ELSE {})
    \cup {i \in 1..Len(Ps) : Ps[i].name = n /\ Ps[i].image /= <<>>}

\* The image of entry e: 0 is the green agent.
EntryImage(e) == IF e = 0 THEN scenario.green.image ELSE Ps[e].image

Last(S) == CHOOSE i \in S : \A j \in S : j <= i

\* The calls of subprocess.run made for entry e, in order.
Calls(e) == SelectSeq(log, LAMBDA c : c.entry = e)

\* s without its leading and trailing whitespace, said without recursion:
\* the slice of s with only whitespace around it and none at its two ends.
Trimmed(s) ==
    CHOOSE t \in {SubSeq(s, i, j) : i \in 1..(Len(s) + 1), j \in 0..Len(s)} :
        /\ \E i \in 1..(Len(s) + 1), j \in 0..Len(s) :
             /\ i <= j + 1
             /\ t = SubSeq(s, i, j)
             /\ \A k \in 1..Len(s) : (k < i \/ k > j) => s[k] \in {" ", "\n"}
        /\ t /= <<>> => (t[1] \notin {" ", "\n"} /\ t[Len(t)] \notin {" ", "\n"})

----------------------------------------------------------------------------
\* C1, as stated: after the collector returns, every participant with a
\* non-empty image has its name as a key and every participant with an empty
\* image has no key equal to its name, also when another entry has that name.
C1_Original ==
    CollectorReturned =>
        \A i \in 1..Len(Ps) :
            /\ Ps[i].image /= <<>> => Ps[i].name \in DOMAIN digests
            /\ Ps[i].image = <<>> => Ps[i].name \notin DOMAIN digests

\* C1, amended: after the collector returns, every participant with a
\* non-empty image has its name as a key; a participant with an empty image
\* adds no key, so its name is a key exactly when it is green_agent or when
\* another participant of that name has a non-empty image.
C1_Amended ==
    CollectorReturned =>
        \A i \in 1..Len(Ps) :
            /\ Ps[i].image /= <<>> => Ps[i].name \in DOMAIN digests
            /\ Ps[i].image = <<>> =>
                 (Ps[i].name \in DOMAIN digests <=>
                    \/ Ps[i].name = "green_agent"
                    \/ \E j \in 1..Len(Ps) :
                         Ps[j].name = Ps[i].name /\ Ps[j].image /= <<>>)

C1_Witness ==
    /\ CollectorReturned
    /\ \E i, j \in 1..Len(Ps) :
         /\ Ps[i].image = <<>> /\ Ps[i].name = "p" /\ Ps[j].name = "p"
         /\ Ps[j].image /= <<>>
         /\ "p" \in DOMAIN digests

\* C2, as stated: get_image_digest never raises, whatever the image string
\* and whatever exit status and output the two inspections give, and it
\* returns the sentinel only when both inspections ended with a non-zero exit
\* status.  (A run in which docker could not be started at all is left aside:
\* there the inspection has no exit status.)
C2_Original ==
    /\ ~(pc = "exit" /\ cause = "ValueError")
    /\ \A e \in DOMAIN ret :
         ret[e].via = "sentinel" =>
            \A k \in 1..Len(log) : log[k].entry = e => log[k].rc /= 0

\* C3, as stated: the returned mapping has the key green_agent and its value
\* is the digest resolved for the green agent's image, whatever the
\* participants are.
C3_Original ==
    CollectorReturned =>
        /\ "green_agent" \in DOMAIN digests
        /\ digests["green_agent"] = ret[0].val

\* C3, amended: the returned mapping has the key green_agent; its value is
\* the digest resolved for the green agent's image unless a participant named
\* green_agent has a non-empty image, and then it is the digest resolved for
\* the last such participant.
C3_Amended ==
    CollectorReturned =>
        /\ "green_agent" \in DOMAIN digests
        /\ digests["green_agent"] = ret[Last(Writers("green_agent"))].val

C3_Witness ==
    /\ CollectorReturned
    /\ Last(Writers("green_agent")) > 0
    /\ ret[Last(Writers("green_agent"))].val /= ret[0].val
    /\ digests["green_agent"] /= ret[0].val

\* C4, as stated: when two participants share a name, the value under that
\* name is the digest of the later one's image, whatever their images are.
C4_Original ==
    CollectorReturned =>
        \A i, j \in 1..Len(Ps) :
            (i < j /\ Ps[i].name = Ps[j].name) =>
                /\ Ps[j].name \in DOMAIN digests
                /\ j \in DOMAIN ret
                /\ digests[Ps[j].name] = ret[j].val

\* C4, amended: when two participants share a name, the value under that
\* name is the digest resolved for the last entry of that name whose image is
\* not empty (the green agent counting as the first entry named green_agent);
\* when there is no such entry the name is no key of the mapping.
C4_Amended ==
    CollectorReturned =>
        \A i, j \in 1..Len(Ps) :
            (i < j /\ Ps[i].name = Ps[j].name) =>
                IF Writers(Ps[j].name) = {}
                THEN Ps[j].name \notin DOMAIN digests
                ELSE /\ Ps[j].name \in DOMAIN digests
                     /\ digests[Ps[j].name] = ret[Last(Writers(Ps[j].name))].val

C4_Witness ==
    /\ CollectorReturned
    /\ \E i, j \in 1..Len(Ps) :
         /\ i < j /\ Ps[i].name = "p" /\ Ps[j].name = "p"
         /\ Ps[i].image /= <<>> /\ Ps[j].image = <<>>
         /\ digests["p"] = ret[i].val

\* C5: the destination is opened for writing at most once, and only after
\* the scenario was found and parsed and every image to resolve was resolved;
\* a run that fails before the write (parser missing, usage error, scenario
\* not found, parse error, missing field, exception of an inspection call)
\* leaves the destination as it was.
C5_NoOutputOnFailure ==
    /\ opens <= 1
    /\ opens = 1 =>
         /\ milestones = <<"found", "parsed", "collected", "opened">>
         /\ scenario.green.hasImage
         /\ \A e \in 0..Len(Ps) :
              (e = 0 \/ Ps[e].image /= <<>>) => e \in DOMAIN ret
    /\ opens = 0 => (file = "untouched" /\ record = NoRecord)
    /\ (pc = "exit" /\ cause \in ({"tomli", "usage", "not found", "parse error"}
                                  \cup CollectorFailures)) =>
         (opens = 0 /\ file = "untouched" /\ record = NoRecord)

C5_Witness ==
    /\ pc = "exit"
    /\ cause = "KeyError:image"
    /\ Len(log) >= 2
    /\ file = "untouched"
    /\ opens = 0

C7_Original ==
    (/\ pc = "exit"
     /\ Len(milestones) >= 2
     /\ scenario.green.hasImage
     /\ \A i \in 1..Len(Ps) : Ps[i].hasName /\ Ps[i].hasImage
     /\ cause \notin {"OSError", "OSError:open", "OSError:write"})
    => (exitCode = 0 /\ file = "record")

\* C8: for every entry, when the first inspection exits with status zero and
\* a non-blank output, the trimmed output is returned and no second call is
\* made; when it ends with another exit status or a blank output, the second
\* inspection is made, and when that one exits with status zero its trimmed
\* output is returned, empty or not.
C8_OrderedFallback ==
    \A e \in 0..Len(Ps) :
        LET calls == Calls(e) IN
        (calls /= <<>> /\ calls[1].kind = "exit") =>
            /\ calls[1].field = "repo"
            /\ IF calls[1].rc = 0 /\ Trimmed(calls[1].out) /= <<>>
               THEN /\ Len(calls) = 1
                    /\ e \in DOMAIN ret
                    /\ ret[e] = [val |-> Trimmed(calls[1].out), via |-> "repo"]
               ELSE /\ (Len(calls) = 1 => (pc = "id" /\ idx = e))
                    /\ Len(calls) >= 2 =>
                         /\ calls[2].field = "id"
                         /\ (calls[2].kind = "exit" /\ calls[2].rc = 0) =>
                              /\ e \in DOMAIN ret
                              /\ ret[e] = [val |-> Trimmed(calls[2].out),
                                           via |-> "id"]

C8_Witness ==
    \E e \in DOMAIN ret :
        /\ Len(Calls(e)) = 2
        /\ Calls(e)[1].rc = 0
        /\ Calls(e)[2].rc = 0
        /\ ret[e].val = <<>>
        /\ \E f \in DOMAIN ret : ret[f] = [val |-> <<"r">>, via |-> "repo"]

\* C9, as stated: the only failure the collector propagates is the missing
\* green_agent.image, raised before any inspection call.  (Exceptions of the
\* inspection call itself are left aside here.)
C9_Original ==
    (CollectorRaised /\ cause \notin {"ValueError", "OSError"}) =>
        (cause = "KeyError:green_agent.image" /\ log = <<>>)

\* C9, amended: a scenario without green_agent.image makes the collector
\* raise the lookup error before any inspection call.  The collector also
\* raises a lookup error when the loop reaches a participant without name or
\* image, the earlier entries having been handled, and lets through an
\* exception of an inspection call that is not CalledProcessError.  It returns
\* a mapping exactly when none of these happens.
C9_Amended ==
    /\ (pc = "exit" /\ cause = "KeyError:green_agent.image") =>
         (~scenario.green.hasImage /\ log = <<>> /\ digests = <<>>)
    /\ (pc = "exit" /\ cause \in {"KeyError:name", "KeyError:image"}) =>
         /\ idx \in 1..Len(Ps)
         /\ (cause = "KeyError:name") = ~Ps[idx].hasName
         /\ (cause = "KeyError:image") = (Ps[idx].hasName /\ ~Ps[idx].hasImage)
         /\ \A e \in 0..(idx - 1) :
              /\ e >= 1 => (Ps[e].hasName /\ Ps[e].hasImage)
              /\ (e = 0 \/ Ps[e].image /= <<>>) => e \in DOMAIN ret
    /\ (pc = "exit" /\ cause \in {"ValueError", "OSError"}) =>
         (log /= <<>> /\ log[Len(log)].kind = cause)
    /\ (Len(milestones) >= 2 /\ ~scenario.green.hasImage /\ pc /= "green") =>
         (pc = "exit" /\ cause = "KeyError:green_agent.image")
    /\ CollectorReturned =>
         /\ scenario.green.hasImage
         /\ \A i \in 1..Len(Ps) : Ps[i].hasName /\ Ps[i].hasImage
         /\ \A k \in 1..Len(log) : log[k].kind = "exit"

C9_Witness ==
    /\ pc = "exit"
    /\ cause = "KeyError:name"
    /\ Len(log) >= 3

\* C10: every resolved entry (the green agent, each participant with a
\* non-empty image) has one or two inspection calls of its own, the repo
\* digest call first and the local identifier call second; the calls follow
\* the order of the entries; an entry with an empty image has none; an image
\* that appears in several entries is inspected again for each of them.
C10_Invocations ==
    /\ \A e \in 0..Len(Ps) :
         LET calls == Calls(e) IN
         /\ Len(calls) <= 2
         /\ \A k \in 1..Len(calls) : calls[k].field = <<"repo", "id">>[k]
         /\ e \in DOMAIN ret => Len(calls) >= 1
         /\ (e >= 1 /\ Ps[e].image = <<>>) => calls = <<>>
         /\ (e \notin DOMAIN ret /\ e /= idx) => calls = <<>>
    /\ \A k, l \in 1..Len(log) : k < l => log[k].entry <= log[l].entry
    /\ \A k \in 1..Len(log) : log[k].entry \in 0..Len(Ps)

C10_Witness ==
    /\ CollectorReturned
    /\ \E e, f \in DOMAIN ret :
         /\ e < f
         /\ EntryImage(e) = EntryImage(f)
         /\ Len(Calls(e)) = 2
         /\ Len(Calls(f)) = 1
    /\ \E e \in 1..Len(Ps) : Ps[e].image = <<>>

=============================================================================
